---- MODULE Spec2Model ----
(***************************************************************************)
(* Model of scripts/src/asyncutil.py: the bounded batch operator           *)
(* async_batch, run on an asyncio event loop whose ready queue is FIFO,    *)
(* SubprocessFilterProtocol with the sinks it feeds and StreamHasher, of   *)
(* async_popen (procutil.py), of the preprocessing pipeline that          *)
(* gitutil.py builds from them, and of the compile-timing loop of run.py   *)
(* with the sample lists it keeps through datacache.py.                    *)
(***************************************************************************)
EXTENDS Integers, Sequences, FiniteSets, TLC

(* ---- bounds ---- *)
MinN == 0 - 1
MaxN == 3
MaxL == 5
MaxFail == 2
MaxFeed == 1

(* durations (tenths of a second) of the simulated-clock scenario *)
Scenario == <<5, 2, 9, 1, 3>>
Ops == 1..(IF MaxL > Len(Scenario) THEN MaxL ELSE Len(Scenario))

VARIABLES
    max_concurrent,   \* async_batch argument
    inputLen,         \* number of awaitables the input sequence produces
    failset,          \* operations whose awaitable raises
    dur,              \* simulated duration of each operation
    pc,               \* position of the async generator body
    error,            \* exception that left the generator
    pulled,           \* items taken from aiterable so far
    task,             \* state of the task made from each awaitable
    futures,          \* the deque of rendezvous futures
    ready,            \* the event loop's ready queue (call_soon handles)
    num_pending,      \* async_batch local
    yielded,          \* values handed to the consumer, in order
    completed,        \* operations in the order their tasks finished
    requests,         \* number of __anext__ calls made by the consumer
    now,              \* loop.time() of the simulated clock
    endTime,          \* time at which each started sleeper finishes
    \* SubprocessFilterProtocol and the transport driving it
    pipes,            \* fds for which the transport has a pipe transport
    connected,        \* connection_made has run
    transport,        \* self._transport: "none" or "set"
    closes,           \* number of transport.close() calls
    process_exited,   \* self._process_exited
    pipe_fds,         \* self._pipe_fds
    stdin,            \* self.stdin: "none", "writer" or "closed"
    sink,             \* state of the stdout (1) and stderr (2) sinks
    lostPending,      \* pipes whose closure has not been notified yet
    exitPending,      \* the exit notification has not been delivered yet
    conn_lost,        \* connection_lost has been called
    perror,           \* exception raised inside a protocol callback
    last_call,        \* the call the transport made last on the protocol
    data_seen,        \* chunks pipe_data_received was called with, per fd
    \* the event loop running the preprocessing pipeline
    loop_exc,         \* exception that left run_until_complete
    \* a StreamHasher, its feeder and the reader of hexdigest
    hasher,           \* _eof, _exception, _waiter and _hasher
    h_fed,            \* bytes passed to feed_data calls that returned
    h_call,           \* the last call made on the hasher and what it raised
    h_prev,           \* the hasher as it was before that call
    h_first,          \* the first of feed_eof / set_exception to be called
    h_ncalls,         \* number of calls made by the feeder
    reader,           \* "idle" or "waiting" (suspended in hexdigest)
    reads,            \* outcomes obtained from hexdigest, in order
    \* one use of async_popen
    po_args,          \* stdin, stdout, stderr and stdout_filter as passed
    po_exists,        \* the program can be executed
    po_pc,            \* "idle", "called", "raised" or "spawned"
    po_error,         \* exception raised by the coroutine
    po_spawns,        \* number of subprocess_exec calls made
    po_proc,          \* what the child was spawned with
    \* the driver's compile-timing loop (run.py) and one list of samples
    d_max,            \* ARGS.max_samples
    d_deadline,       \* ARGS.deadline (NoDeadline stands for None)
    d_prune,          \* days_ago(360), the prune_before of line 257
    d_clock,          \* time()
    d_units,          \* number of units the loop has to time
    d_pc,             \* "idle", "loop", "unit", "done" or the exception raised
    d_started,        \* units whose time_compile_one was called
    d_done,           \* num_done
    d_crs,            \* the list of samples in the cache (sdata[cpp_hash])
    d_file            \* the list as last written to the source data file

bvars == <<max_concurrent, inputLen, failset, dur, pc, error, pulled, task,
           futures, ready, num_pending, yielded, completed, requests, now,
           endTime>>

pvars == <<pipes, connected, transport, closes, process_exited, pipe_fds,
           stdin, sink, lostPending, exitPending, conn_lost, perror,
           last_call, data_seen>>

lvars == <<loop_exc>>

hvars == <<hasher, h_fed, h_call, h_prev, h_first, h_ncalls, reader, reads>>

ovars == <<po_args, po_exists, po_pc, po_error, po_spawns, po_proc>>

dvars == <<d_max, d_deadline, d_prune, d_clock, d_units, d_pc, d_started,
           d_done, d_crs, d_file>>

xvars == <<lvars, hvars, ovars, dvars>>

vars == <<bvars, pvars, xvars>>

Range(s) == {s[k] : k \in 1..Len(s)}

(* ---- pure parts of async_batch ---- *)

\* line 151 with the comparison weakened
ConfigInvalidStrict(mc) == mc < 0
\* line 151: if max_concurrent <= 0
ConfigInvalid(mc) == mc <= 0

\* line 181 with an off-by-one comparison
BelowCapOffByOne(np, mc) == np <= mc
\* line 181: if num_pending < max_concurrent
BelowCap(np, mc) == np < mc

\* line 188 with an off-by-one comparison
DrainMoreOffByOne(np) == np >= 0
\* line 188 stopping one result early
DrainMoreSkipsLast(np) == np > 1
\* line 188: while num_pending > 0
DrainMore(np) == np > 0

NewFuture(isDone, t, w) == [done |-> isDone, task |-> t, waited |-> w]

\* _task_completed putting the fresh future at the wrong end of the deque
TaskCompletedAppendLeft(futs, t) ==
    IF futs # <<>> /\ ~futs[1].done
    THEN [futs EXCEPT ![1].done = TRUE, ![1].task = t]
    ELSE <<NewFuture(TRUE, t, FALSE)>> \o futs
\* _task_completed never looking at the front of the deque
TaskCompletedAlwaysAppend(futs, t) == Append(futs, NewFuture(TRUE, t, FALSE))
\* _task_completed with a set_result that overwrites a resolved future
TaskCompletedOverwrites(futs, t) ==
    IF futs # <<>>
    THEN [futs EXCEPT ![1].done = TRUE, ![1].task = t]
    ELSE Append(futs, NewFuture(TRUE, t, FALSE))
\* _task_completed: set_result on futures[0]; on IndexError or
\* InvalidStateError append a fresh resolved future
TaskCompleted(futs, t) ==
    IF futs # <<>> /\ ~futs[1].done
    THEN [futs EXCEPT ![1].done = TRUE, ![1].task = t]
    ELSE Append(futs, NewFuture(TRUE, t, FALSE))

\* _whos_on_first making a future of its own whenever it is called
WhosOnFirstAlwaysNew(futs) ==
    IF futs # <<>> /\ futs[1].done
    THEN [futs |-> Append(futs, NewFuture(FALSE, 0, TRUE)), susp |-> TRUE, val |-> 0]
    ELSE IF futs = <<>>
         THEN [futs |-> <<NewFuture(FALSE, 0, TRUE)>>, susp |-> TRUE, val |-> 0]
         ELSE [futs |-> [futs EXCEPT ![1].waited = TRUE], susp |-> TRUE, val |-> 0]
\* _whos_on_first up to the await: the deque after it, whether the
\* coroutine suspends, and the task obtained when it does not
WhosOnFirst(futs) ==
    IF futs = <<>>
    THEN [futs |-> <<NewFuture(FALSE, 0, TRUE)>>, susp |-> TRUE, val |-> 0]
    ELSE IF ~futs[1].done
         THEN [futs |-> [futs EXCEPT ![1].waited = TRUE], susp |-> TRUE, val |-> 0]
         ELSE [futs |-> Tail(futs), susp |-> FALSE, val |-> futs[1].task]

\* the task held by the future the generator is suspended on
AwaitedTask(futs) ==
    LET k == CHOOSE k \in 1..Len(futs) : futs[k].waited IN futs[k].task

\* task.result() raising the operation's exception into the generator body
\* replaced by handing the failed task's value on
TaskResultRaisesNever(st) == FALSE
\* line 176: task.result() raises when the task ended with an exception
TaskResultRaises(st) == st = "failed"

(* ---- pure parts of StreamHasher ---- *)

MaxCalls == 4
MaxReads == 2
Chunks == {<<>>, <<0>>, <<1>>, <<0, 1>>}
Excs == {"e1", "e2"}

\* lines 103-107: a pending waiter and a fresh hash object
NewHasher ==
    [eof |-> FALSE, exception |-> "none",
     waiter |-> [state |-> "pending", value |-> 0], hash |-> 0]

\* the hash object's update, absorbing the bytes one by one
RECURSIVE Update(_, _)
Update(h, data) ==
    IF data = <<>> THEN h
    ELSE Update((h * 3 + Head(data) + 1) % 251, Tail(data))

\* feed_data with the emptiness test turned into a length test
HFeedDataSkipsShort(h, data) ==
    IF h.eof
    THEN [h |-> h, raised |-> "AssertionError"]
    ELSE [h |-> IF Len(data) > 1 THEN [h EXCEPT !.hash = Update(h.hash, data)] ELSE h,
          raised |-> "none"]
\* feed_data (lines 119-122)
HFeedData(h, data) ==
    IF h.eof
    THEN [h |-> h, raised |-> "AssertionError"]
    ELSE [h |-> IF data # <<>> THEN [h EXCEPT !.hash = Update(h.hash, data)] ELSE h,
          raised |-> "none"]

\* feed_eof storing the digest whatever the state of the waiter
HFeedEofOverwrites(h) ==
    [h |-> [h EXCEPT !.eof = TRUE,
                     !.waiter = [state |-> "result", value |-> h.hash]],
     raised |-> "none"]
\* feed_eof (lines 124-128); set_result on a finished future raises
\* InvalidStateError
HFeedEof(h) ==
    IF h.waiter.state = "cancelled"
    THEN [h |-> [h EXCEPT !.eof = TRUE], raised |-> "none"]
    ELSE IF h.waiter.state = "pending"
         THEN [h |-> [h EXCEPT !.eof = TRUE,
                               !.waiter = [state |-> "result", value |-> h.hash]],
               raised |-> "none"]
         ELSE [h |-> [h EXCEPT !.eof = TRUE], raised |-> "InvalidStateError"]

\* set_exception recording the exception without failing the waiter
HSetExceptionKeepsWaiter(h, e) ==
    [h |-> [h EXCEPT !.exception = e], raised |-> "none"]
\* set_exception (lines 133-136)
HSetException(h, e) ==
    IF h.waiter.state = "cancelled"
    THEN [h |-> [h EXCEPT !.exception = e], raised |-> "none"]
    ELSE IF h.waiter.state = "pending"
         THEN [h |-> [h EXCEPT !.exception = e,
                               !.waiter = [state |-> "exception", value |-> e]],
               raised |-> "none"]
         ELSE [h |-> [h EXCEPT !.exception = e], raised |-> "InvalidStateError"]

(* ---- pure parts of async_popen (procutil.py) ---- *)

\* a stream disposition: not given, DEVNULL, PIPE or an open file
Dispositions == {"None", "DEVNULL", "PIPE", "FILE"}
NoArgs == [stdin |-> "None", stdout |-> "None", stderr |-> "None",
           stdout_filter |-> "None"]
NoProc == [stdout |-> "None", stderr |-> "None", stdout_sink |-> "None",
           stderr_sink |-> "None"]

\* the conflict test applied only when the raw stream asked for is a pipe
PopenConflictPipeOnly(a) == a.stdout = "PIPE" /\ a.stdout_filter # "None"
\* lines 83-88: a stdout disposition together with a stdout_filter
PopenConflict(a) == a.stdout # "None" /\ a.stdout_filter # "None"

\* lines 83-95: the disposition and the sinks the child is spawned with
PopenWiring(a) ==
    [stdout |-> IF a.stdout = "None" /\ a.stdout_filter # "None"
                THEN "PIPE" ELSE a.stdout,
     stderr |-> a.stderr,
     stdout_sink |-> IF a.stdout = "PIPE" THEN "StreamReader"
                     ELSE a.stdout_filter,
     stderr_sink |-> IF a.stderr = "PIPE" THEN "StreamReader" ELSE "None"]

(* ---- state ---- *)

TypeOK ==
    /\ max_concurrent \in MinN..MaxN
    /\ inputLen \in 0..MaxL
    /\ failset \subseteq 1..inputLen
    /\ pc \in {"uncalled", "created", "iter", "await_loop", "yield_loop",
               "await_drain", "yield_drain", "done", "raised", "closed"}
    /\ error \in {"none", "ValueError", "OpError"}
    /\ pulled \in 0..inputLen
    /\ task \in [Ops -> {"new", "running", "ok", "failed"}]
    /\ num_pending \in 0..(MaxN + 1)
    /\ requests \in Nat

InitCommon ==
    /\ pc = "uncalled"
    /\ error = "none"
    /\ pulled = 0
    /\ task = [i \in Ops |-> "new"]
    /\ futures = <<>>
    /\ ready = <<>>
    /\ num_pending = 0
    /\ yielded = <<>>
    /\ completed = <<>>
    /\ requests = 0
    /\ now = 0
    /\ endTime = [i \in Ops |-> 0]

\* descriptors pipe_data_received is called with
DataFds == 0..3
Event(name, fd, exc) == [ev |-> name, fd |-> fd, exc |-> exc]

\* SubprocessFilterProtocol.__init__ (lines 15-22) with the sinks that
\* async_popen passes: one for each output stream that is a pipe
InitProtocol(ps) ==
    /\ pipes = ps
    /\ connected = FALSE
    /\ transport = "none"
    /\ closes = 0
    /\ process_exited = FALSE
    /\ pipe_fds = 0
    /\ stdin = "none"
    /\ sink = [fd \in {1, 2} |->
                 [present |-> fd \in ps, attached |-> FALSE, fed |-> 0,
                  eof |-> FALSE, exception |-> FALSE, waiter |-> "pending"]]
    /\ lostPending = ps
    /\ exitPending = TRUE
    /\ conn_lost = FALSE
    /\ perror = "none"
    /\ last_call = Event("none", 0, FALSE)
    /\ data_seen = [fd \in DataFds |-> 0]

\* StreamHasher.__init__ (lines 99-107) and a reader that has not asked yet
InitHasher ==
    /\ hasher = NewHasher
    /\ h_fed = <<>>
    /\ h_call = [op |-> "none", raised |-> "none"]
    /\ h_prev = NewHasher
    /\ h_first = "none"
    /\ h_ncalls = 0
    /\ reader = "idle"
    /\ reads = <<>>

\* async_popen not called yet
InitPopen(args, exists) ==
    /\ po_args = args
    /\ po_exists = exists
    /\ po_pc = "idle"
    /\ po_error = "none"
    /\ po_spawns = 0
    /\ po_proc = NoProc

\* no SystemExit or KeyboardInterrupt has left the loop
InitLoop == loop_exc = "none"

NoDeadline == 0 - 1
NoTs == 0 - 1

\* the driver before process_commit reaches its timing loop
InitDriver(mx, dl, un, stored) ==
    /\ d_max = mx
    /\ d_deadline = dl
    /\ d_prune = 1
    /\ d_clock = 1
    /\ d_units = un
    /\ d_pc = "idle"
    /\ d_started = 0
    /\ d_done = 0
    /\ d_crs = stored
    /\ d_file = stored

InitDriverIdle == InitDriver(1, NoDeadline, 0, <<>>)

\* the components a specification does not exercise stay as constructed
InitIdle == InitLoop /\ InitDriverIdle /\ InitHasher /\ InitPopen(NoArgs, TRUE)

Init ==
    /\ InitIdle
    /\ InitProtocol({})
    /\ max_concurrent \in MinN..MaxN
    /\ inputLen \in 0..MaxL
    /\ failset \in {s \in SUBSET (1..inputLen) : Cardinality(s) <= MaxFail}
    /\ dur = [i \in Ops |-> 0]
    /\ InitCommon

(* ---- steps of the generator body ---- *)

\* lines 185-186 applied to the input sequence read from its far end
StartTaskReversed(i) ==
    /\ task' = [task EXCEPT ![inputLen + 1 - i] = "running"]
    /\ endTime' = [endTime EXCEPT ![inputLen + 1 - i] = now + dur[inputLen + 1 - i]]
\* lines 185-186: ensure_future(awaitable); add_done_callback
StartTask(i) ==
    /\ task' = [task EXCEPT ![i] = "running"]
    /\ endTime' = [endTime EXCEPT ![i] = now + dur[i]]

\* lines 174-176 after the future has a result, then the yield
Deliver(loc, t) ==
    IF TaskResultRaises(task[t])
    THEN /\ pc' = "raised"
         /\ error' = "OpError"
         /\ yielded' = yielded
    ELSE /\ pc' = "yield_" \o loc
         /\ error' = error
         /\ yielded' = Append(yielded, t)

\* yield await _whos_on_first()   (lines 184 and 189)
Rendezvous(loc) ==
    LET w == WhosOnFirst(futures) IN
    /\ futures' = w.futs
    /\ IF w.susp
       THEN /\ pc' = "await_" \o loc
            /\ UNCHANGED <<error, yielded>>
       ELSE Deliver(loc, w.val)

\* lines 188-190: the drain loop, entered or re-entered with np pending
Drain(np) ==
    IF DrainMore(np)
    THEN Rendezvous("drain")
    ELSE /\ pc' = "done"
         /\ UNCHANGED <<futures, error, yielded>>

(* ---- actions ---- *)

\* calling an async generator function runs none of its body
Call ==
    /\ pc = "uncalled"
    /\ pc' = "created"
    /\ UNCHANGED <<pvars, xvars, max_concurrent, inputLen, failset, dur, error, pulled, task,
                   futures, ready, num_pending, yielded, completed, requests,
                   now, endTime>>

\* first __anext__: lines 151-180
RequestFirst ==
    /\ pc = "created"
    /\ requests' = requests + 1
    /\ IF ConfigInvalid(max_concurrent)
       THEN pc' = "raised" /\ error' = "ValueError"
       ELSE pc' = "iter" /\ error' = error
    /\ UNCHANGED <<pvars, xvars, max_concurrent, inputLen, failset, dur, pulled, task,
                   futures, ready, num_pending, yielded, completed, now,
                   endTime>>

\* __anext__ while suspended at the yield of line 184: lines 185-186
RequestLoop ==
    /\ pc = "yield_loop"
    /\ requests' = requests + 1
    /\ StartTask(pulled)
    /\ pc' = "iter"
    /\ UNCHANGED <<pvars, xvars, max_concurrent, inputLen, failset, dur, error, pulled,
                   futures, ready, num_pending, yielded, completed, now>>

\* __anext__ while suspended at the yield of line 189: line 190, then 188
RequestDrain ==
    /\ pc = "yield_drain"
    /\ requests' = requests + 1
    /\ num_pending' = num_pending - 1
    /\ Drain(num_pending - 1)
    /\ UNCHANGED <<pvars, xvars, max_concurrent, inputLen, failset, dur, pulled, task,
                   ready, completed, now, endTime>>

\* lines 180-186 with the task created before the wait for a free place
NextItemEager ==
    /\ pc = "iter"
    /\ pulled < inputLen
    /\ pulled' = pulled + 1
    /\ StartTask(pulled + 1)
    /\ IF BelowCap(num_pending, max_concurrent)
       THEN /\ num_pending' = num_pending + 1
            /\ UNCHANGED <<pc, futures, error, yielded>>
       ELSE /\ Rendezvous("loop")
            /\ UNCHANGED num_pending
    /\ UNCHANGED <<pvars, xvars, max_concurrent, inputLen, failset, dur, ready,
                   completed, requests, now>>

\* the input sequence produces its next awaitable: lines 180-186
NextItem ==
    /\ pc = "iter"
    /\ pulled < inputLen
    /\ pulled' = pulled + 1
    /\ IF BelowCap(num_pending, max_concurrent)
       THEN /\ num_pending' = num_pending + 1
            /\ StartTask(pulled + 1)
            /\ UNCHANGED <<pc, futures, error, yielded>>
       ELSE /\ Rendezvous("loop")
            /\ UNCHANGED <<num_pending, task, endTime>>
    /\ UNCHANGED <<pvars, xvars, max_concurrent, inputLen, failset, dur, ready, completed,
                   requests, now>>

\* the input sequence is exhausted: line 188
Exhausted ==
    /\ pc = "iter"
    /\ pulled = inputLen
    /\ Drain(num_pending)
    /\ UNCHANGED <<pvars, xvars, max_concurrent, inputLen, failset, dur, pulled, task, ready,
                   num_pending, completed, requests, now, endTime>>

\* a running operation finishes; its done callback is scheduled (call_soon)
Finish(i) ==
    /\ task[i] = "running"
    /\ task' = [task EXCEPT ![i] = IF i \in failset THEN "failed" ELSE "ok"]
    /\ completed' = Append(completed, i)
    /\ ready' = Append(ready, [kind |-> "cb", task |-> i])
    /\ UNCHANGED <<pvars, xvars, max_concurrent, inputLen, failset, dur, pc, error, pulled,
                   futures, num_pending, yielded, requests, endTime>>

Complete ==
    \E i \in Ops : Finish(i) /\ now' = now

\* the loop runs the done callback at the head of its ready queue
RunCallback ==
    /\ ready # <<>>
    /\ Head(ready).kind = "cb"
    /\ futures' = TaskCompleted(futures, Head(ready).task)
    /\ ready' = IF futures # <<>> /\ ~futures[1].done /\ futures[1].waited
                THEN Append(Tail(ready), [kind |-> "wake", task |-> 0])
                ELSE Tail(ready)
    /\ UNCHANGED <<pvars, xvars, max_concurrent, inputLen, failset, dur, pc, error, pulled,
                   task, num_pending, yielded, completed, requests, now,
                   endTime>>

\* the loop resumes the generator suspended on line 174: lines 174-176
Wake ==
    /\ ready # <<>>
    /\ Head(ready).kind = "wake"
    /\ pc \in {"await_loop", "await_drain"}
    /\ ready' = Tail(ready)
    /\ futures' = Tail(futures)
    /\ Deliver(IF pc = "await_loop" THEN "loop" ELSE "drain", AwaitedTask(futures))
    /\ UNCHANGED <<pvars, xvars, max_concurrent, inputLen, failset, dur, pulled, task,
                   num_pending, completed, requests, now, endTime>>

\* a stop that cancels the tasks still running
StopCancelling ==
    /\ pc \in {"created", "yield_loop", "yield_drain"}
    /\ pc' = "closed"
    /\ task' = [i \in Ops |-> IF task[i] = "running" THEN "cancelled" ELSE task[i]]
    /\ UNCHANGED <<pvars, xvars, max_concurrent, inputLen, failset, dur, error,
                   pulled, futures, ready, num_pending, yielded, completed,
                   requests, now, endTime>>

\* the consumer stops iterating (aclose) while the generator is suspended
\* at a yield or has not been started
Stop ==
    /\ pc \in {"created", "yield_loop", "yield_drain"}
    /\ pc' = "closed"
    /\ UNCHANGED <<pvars, xvars, max_concurrent, inputLen, failset, dur, error, pulled, task,
                   futures, ready, num_pending, yielded, completed, requests,
                   now, endTime>>

Next ==
    \/ Call
    \/ RequestFirst
    \/ RequestLoop
    \/ RequestDrain
    \/ NextItem
    \/ Exhausted
    \/ Complete
    \/ RunCallback
    \/ Wake
    \/ Stop

Spec == Init /\ [][Next]_vars

\* a consumer that iterates to the end, operations that all finish, an
\* input sequence that always answers and a loop that runs what is ready
NextLive ==
    \/ Call
    \/ RequestFirst
    \/ RequestLoop
    \/ RequestDrain
    \/ NextItem
    \/ Exhausted
    \/ Complete
    \/ RunCallback
    \/ Wake

SpecLive ==
    /\ Init
    /\ [][NextLive]_vars
    /\ WF_vars(Call)
    /\ WF_vars(RequestFirst)
    /\ WF_vars(RequestLoop)
    /\ WF_vars(RequestDrain)
    /\ WF_vars(NextItem)
    /\ WF_vars(Exhausted)
    /\ WF_vars(Complete)
    /\ WF_vars(RunCallback)
    /\ WF_vars(Wake)

(* ---- the self test's simulated clock (lines 198-205) ---- *)

Perms(q) ==
    {f \in [1..Len(q) -> Range(q)] : \A a, b \in 1..Len(q) : a # b => f[a] # f[b]}

\* test_delays: sleepers never fail and the consumer asks again at once
InitTimed ==
    /\ InitIdle
    /\ InitProtocol({})
    /\ max_concurrent \in 1..MaxN
    /\ inputLen = Len(Scenario)
    /\ failset = {}
    /\ \E p \in Perms(Scenario) :
           dur = [i \in Ops |-> IF i <= Len(Scenario) THEN p[i] ELSE 0]
    /\ InitCommon

\* the loop runs other handles only while the consumer's coroutine is
\* suspended or finished
Suspended == pc \in {"await_loop", "await_drain", "done", "raised"}

RunCallbackTimed == Suspended /\ RunCallback

\* nothing is ready: the loop sleeps until the earliest timer and the
\* sleeper that owns it finishes
TimerFire ==
    /\ Suspended
    /\ ready = <<>>
    /\ \E i \in Ops :
          /\ \A j \in Ops : task[j] = "running" => endTime[i] <= endTime[j]
          /\ Finish(i)
          /\ now' = endTime[i]

NextTimed ==
    \/ Call
    \/ RequestFirst
    \/ RequestLoop
    \/ RequestDrain
    \/ NextItem
    \/ Exhausted
    \/ RunCallbackTimed
    \/ Wake
    \/ TimerFire

SpecTimed == InitTimed /\ [][NextTimed]_vars

(* ---- SubprocessFilterProtocol (lines 6-92) ---- *)

HasBit(m, fd) == (m \div fd) % 2 = 1
\* self._pipe_fds |= fd
SetFd(m, fd) == IF HasBit(m, fd) THEN m ELSE m + fd
\* line 82 without the complement: self._pipe_fds &= fd
ClearFdNoInvert(m, fd) == IF HasBit(m, fd) THEN fd ELSE 0
\* line 82: self._pipe_fds &= ~fd
ClearFd(m, fd) == IF HasBit(m, fd) THEN m - fd ELSE m

\* lines 55-60 with the stdout reader taken for both output streams
ReaderForBothStdout(fd) == IF fd \in {1, 2} THEN 1 ELSE 0
\* lines 55-60: the reader pipe_data_received picks (0 stands for None)
ReaderFor(fd) == IF fd = 1 THEN 1 ELSE IF fd = 2 THEN 2 ELSE 0

\* line 90 looking at the exit flag only
ShouldCloseExitOnly(pf, ex) == ex
\* line 90 looking at the mask only
ShouldClosePipesOnly(pf, ex) == pf = 0
\* line 90: if self._pipe_fds == 0 and self._process_exited
ShouldClose(pf, ex) == pf = 0 /\ ex

\* StreamHasher.feed_data (lines 119-122)
FeedData(s) ==
    IF s.eof THEN s ELSE [s EXCEPT !.fed = s.fed + 1]
\* StreamHasher.feed_eof (lines 124-128)
FeedEof(s) ==
    [s EXCEPT !.eof = TRUE,
              !.waiter = IF s.waiter = "pending" THEN "result" ELSE s.waiter]
\* StreamHasher.set_exception (lines 133-136)
SetException(s) ==
    [s EXCEPT !.exception = TRUE,
              !.waiter = IF s.waiter = "pending" THEN "exception" ELSE s.waiter]

\* lines 74-80 without the test of exc
TerminalSignalAlwaysEof(s, exc) == FeedEof(s)
\* lines 74-80: feed_eof() when exc is None, set_exception(exc) otherwise
TerminalSignal(s, exc) == IF exc THEN SetException(s) ELSE FeedEof(s)

InitProto ==
    /\ InitIdle
    /\ \E ps \in SUBSET {0, 1, 2} : InitProtocol(ps)
    /\ max_concurrent = 1
    /\ inputLen = 0
    /\ failset = {}
    /\ dur = [i \in Ops |-> 0]
    /\ InitCommon

\* _maybe_close_transport (lines 89-92) with the mask and flag just written
MaybeCloseTransport(pf, ex) ==
    IF ShouldClose(pf, ex)
    THEN IF transport = "set"
         THEN /\ closes' = closes + 1
              /\ transport' = "none"
              /\ perror' = perror
         ELSE /\ perror' = "AttributeError"
              /\ UNCHANGED <<closes, transport>>
    ELSE UNCHANGED <<closes, transport, perror>>

\* connection_made (lines 34-52); line 49 names a module that is not
\* imported, so a transport with a stdin pipe ends the handler in NameError
ConnectionMade ==
    /\ ~connected
    /\ connected' = TRUE
    /\ transport' = "set"
    /\ pipe_fds' = LET a == IF 1 \in pipes THEN SetFd(pipe_fds, 1) ELSE pipe_fds
                   IN IF 2 \in pipes THEN SetFd(a, 2) ELSE a
    /\ sink' = [fd \in {1, 2} |->
                  IF fd \in pipes THEN [sink[fd] EXCEPT !.attached = TRUE]
                  ELSE sink[fd]]
    /\ perror' = IF 0 \in pipes THEN "NameError" ELSE perror
    /\ last_call' = Event("made", 0, FALSE)
    /\ UNCHANGED <<bvars, xvars, data_seen, pipes, closes, process_exited, stdin, lostPending,
                   exitPending, conn_lost>>

\* pipe_data_received (lines 54-62) for a non-empty chunk; a pipe reports
\* data only before its closure, and the handler is also called for
\* descriptors it has no sink for, which it ignores
PipeDataReceived ==
    \E fd \in DataFds :
        /\ connected
        /\ fd \in pipes => fd \in lostPending
        /\ data_seen[fd] < MaxFeed
        /\ data_seen' = [data_seen EXCEPT ![fd] = data_seen[fd] + 1]
        /\ last_call' = Event("data", fd, FALSE)
        /\ LET r == ReaderFor(fd) IN
           IF r # 0 /\ sink[r].present
           THEN /\ sink' = [sink EXCEPT ![r] = FeedData(sink[r])]
                /\ perror' = IF sink[r].eof THEN "AssertionError" ELSE perror
           ELSE UNCHANGED <<sink, perror>>
        /\ UNCHANGED <<bvars, xvars, pipes, connected, transport, closes,
                       process_exited, pipe_fds, stdin, lostPending,
                       exitPending, conn_lost>>

\* pipe_connection_lost(0, exc) without the return of line 70: lines 82-83
\* run as well
InputPipeLostFallsThrough ==
  \E exc \in BOOLEAN :
    /\ connected
    /\ 0 \in lostPending
    /\ lostPending' = lostPending \ {0}
    /\ stdin' = IF stdin # "none" THEN "closed" ELSE stdin
    /\ conn_lost' = TRUE
    /\ last_call' = Event("lost", 0, exc)
    /\ pipe_fds' = pipe_fds
    /\ MaybeCloseTransport(pipe_fds, process_exited)
    /\ UNCHANGED <<bvars, xvars, data_seen, pipes, connected, process_exited, sink,
                   exitPending>>

\* pipe_connection_lost(0, exc) (lines 65-70)
InputPipeLost ==
  \E exc \in BOOLEAN :
    /\ connected
    /\ 0 \in lostPending
    /\ lostPending' = lostPending \ {0}
    /\ stdin' = IF stdin # "none" THEN "closed" ELSE stdin
    /\ conn_lost' = TRUE
    /\ last_call' = Event("lost", 0, exc)
    /\ UNCHANGED <<bvars, xvars, data_seen, pipes, connected, transport, closes, process_exited,
                   pipe_fds, sink, exitPending, perror>>

\* pipe_connection_lost(fd, exc) for an output pipe (lines 71-83)
OutputPipeLost ==
    \E fd \in {1, 2}, exc \in BOOLEAN :
        /\ connected
        /\ fd \in lostPending
        /\ lostPending' = lostPending \ {fd}
        /\ last_call' = Event("lost", fd, exc)
        /\ data_seen' = data_seen
        /\ sink' = IF sink[fd].present
                   THEN [sink EXCEPT ![fd] = TerminalSignal(sink[fd], exc)]
                   ELSE sink
        /\ pipe_fds' = ClearFd(pipe_fds, fd)
        /\ MaybeCloseTransport(ClearFd(pipe_fds, fd), process_exited)
        /\ UNCHANGED <<bvars, xvars, pipes, connected, process_exited, stdin,
                       exitPending, conn_lost>>

\* process_exited (lines 85-87)
ProcessExited ==
    /\ connected
    /\ exitPending
    /\ exitPending' = FALSE
    /\ process_exited' = TRUE
    /\ last_call' = Event("exit", 0, FALSE)
    /\ MaybeCloseTransport(pipe_fds, TRUE)
    /\ UNCHANGED <<bvars, xvars, data_seen, pipes, connected, pipe_fds, stdin, sink,
                   lostPending, conn_lost>>

NextProto ==
    \/ ConnectionMade
    \/ PipeDataReceived
    \/ InputPipeLost
    \/ OutputPipeLost
    \/ ProcessExited

SpecProto == InitProto /\ [][NextProto]_vars

(* ---- the preprocessing pipeline (gitutil.py) ---- *)

\* preprocess_sources (gitutil.py lines 271-277): async_batch over the
\* preprocess_one coroutines with max_concurrent=2; failset holds the units
\* whose child process exits with a non-zero status
InitPipe ==
    /\ InitLoop
    /\ InitDriverIdle
    /\ InitHasher
    /\ InitPopen(NoArgs, TRUE)
    /\ InitProtocol({})
    /\ max_concurrent = 2
    /\ inputLen \in 0..MaxL
    /\ failset \in {s \in SUBSET (1..inputLen) : Cardinality(s) <= MaxFail}
    /\ dur = [i \in Ops |-> 0]
    /\ InitCommon

\* command_output_hash (gitutil.py lines 19-21) reaching its end inside the
\* task: a zero status returns the digest; a non-zero status raises
\* SystemExit, which the task records as its exception (scheduling the done
\* callback) and re-raises out of the running loop
CompleteUnit ==
    \E i \in Ops :
        /\ UNCHANGED <<hvars, ovars, dvars>>
        /\ task[i] = "running"
        /\ task' = [task EXCEPT ![i] = IF i \in failset THEN "failed" ELSE "ok"]
        /\ completed' = Append(completed, i)
        /\ ready' = Append(ready, [kind |-> "cb", task |-> i])
        /\ loop_exc' = IF i \in failset THEN "SystemExit" ELSE loop_exc
        /\ UNCHANGED <<pvars, max_concurrent, inputLen, failset, dur, pc,
                       error, pulled, futures, num_pending, yielded, requests,
                       now, endTime>>

\* run.py lines 361-365: the loop runs handles until an exception leaves
\* run_until_complete, after which it is closed
LoopRunning == loop_exc = "none"

NextPipe ==
    \/ LoopRunning /\ Call
    \/ LoopRunning /\ RequestFirst
    \/ LoopRunning /\ RequestLoop
    \/ LoopRunning /\ RequestDrain
    \/ LoopRunning /\ NextItem
    \/ LoopRunning /\ Exhausted
    \/ LoopRunning /\ CompleteUnit
    \/ LoopRunning /\ RunCallback
    \/ LoopRunning /\ Wake

SpecPipe == InitPipe /\ [][NextPipe]_vars

(* ---- StreamHasher driven by a feeder and a reader (lines 97-143) ---- *)

InitHash ==
    /\ InitLoop
    /\ InitDriverIdle
    /\ InitHasher
    /\ InitPopen(NoArgs, TRUE)
    /\ InitProtocol({})
    /\ max_concurrent = 1
    /\ inputLen = 0
    /\ failset = {}
    /\ dur = [i \in Ops |-> 0]
    /\ InitCommon

\* one call on the hasher: its effect and what is remembered of it
HasherCall(name, res) ==
    /\ h_ncalls < MaxCalls
    /\ h_ncalls' = h_ncalls + 1
    /\ h_prev' = hasher
    /\ hasher' = res.h
    /\ h_call' = [op |-> name, raised |-> res.raised]

\* feed_data(data)
CallFeedData ==
    \E data \in Chunks :
        LET res == HFeedData(hasher, data) IN
        /\ HasherCall("feed_data", res)
        /\ h_fed' = IF res.raised = "none" THEN h_fed \o data ELSE h_fed
        /\ UNCHANGED <<bvars, pvars, lvars, dvars, ovars, h_first, reader, reads>>

\* feed_eof()
CallFeedEof ==
    /\ HasherCall("feed_eof", HFeedEof(hasher))
    /\ h_first' = IF h_first = "none" THEN "eof" ELSE h_first
    /\ UNCHANGED <<bvars, pvars, lvars, dvars, ovars, h_fed, reader, reads>>

\* set_exception(exc)
CallSetException ==
    \E e \in Excs :
        /\ HasherCall("set_exception", HSetException(hasher, e))
        /\ h_first' = IF h_first = "none" THEN e ELSE h_first
        /\ UNCHANGED <<bvars, pvars, lvars, dvars, ovars, h_fed, reader, reads>>

\* hexdigest (lines 142-143): awaiting a finished future returns its
\* outcome at once, awaiting a pending one suspends the reader
ReadHexdigest ==
    /\ reader = "idle"
    /\ Len(reads) < MaxReads
    /\ IF hasher.waiter.state = "pending"
       THEN reader' = "waiting" /\ reads' = reads
       ELSE reader' = reader /\ reads' = Append(reads, hasher.waiter)
    /\ UNCHANGED <<bvars, pvars, lvars, dvars, ovars, hasher, h_fed, h_call, h_prev,
                   h_first, h_ncalls>>

\* the loop resumes the reader once the waiter has an outcome
ReaderWake ==
    /\ reader = "waiting"
    /\ hasher.waiter.state # "pending"
    /\ reader' = "idle"
    /\ reads' = Append(reads, hasher.waiter)
    /\ UNCHANGED <<bvars, pvars, lvars, dvars, ovars, hasher, h_fed, h_call, h_prev,
                   h_first, h_ncalls>>

NextHash ==
    \/ CallFeedData
    \/ CallFeedEof
    \/ CallSetException
    \/ ReadHexdigest
    \/ ReaderWake

SpecHash == InitHash /\ [][NextHash]_vars

(* ---- async_popen (procutil.py lines 61-108) ---- *)

InitPopenSpec ==
    /\ InitLoop
    /\ InitDriverIdle
    /\ InitHasher
    /\ \E a \in [stdin : {"None", "DEVNULL", "PIPE"}, stdout : Dispositions,
                 stderr : Dispositions, stdout_filter : {"None", "sink"}],
          x \in BOOLEAN : InitPopen(a, x)
    /\ InitProtocol({})
    /\ max_concurrent = 1
    /\ inputLen = 0
    /\ failset = {}
    /\ dur = [i \in Ops |-> 0]
    /\ InitCommon

\* calling the coroutine function runs none of its body
PopenCall ==
    /\ po_pc = "idle"
    /\ po_pc' = "called"
    /\ UNCHANGED <<bvars, pvars, lvars, dvars, hvars, po_args, po_exists, po_error,
                   po_spawns, po_proc>>

\* the coroutine is awaited and stops at line 88
PopenRejects ==
    /\ po_pc = "called"
    /\ PopenConflict(po_args)
    /\ po_pc' = "raised"
    /\ po_error' = "ValueError"
    /\ UNCHANGED <<bvars, pvars, lvars, dvars, hvars, po_args, po_exists, po_spawns,
                   po_proc>>

\* the coroutine is awaited and reaches subprocess_exec (lines 103-108),
\* which raises when the program cannot be executed
PopenSpawns ==
    /\ po_pc = "called"
    /\ ~PopenConflict(po_args)
    /\ po_spawns' = po_spawns + 1
    /\ IF po_exists
       THEN /\ po_pc' = "spawned"
            /\ po_proc' = PopenWiring(po_args)
            /\ po_error' = po_error
       ELSE /\ po_pc' = "raised"
            /\ po_error' = "OSError"
            /\ po_proc' = po_proc
    /\ UNCHANGED <<bvars, pvars, lvars, dvars, hvars, po_args, po_exists>>

NextPopen ==
    \/ PopenCall
    \/ PopenRejects
    \/ PopenSpawns

SpecPopen == InitPopenSpec /\ [][NextPopen]_vars

(* ---- the compile-timing loop of run.py ---- *)

MaxSamples == 2
MaxUnits == 3
MaxClock == 4
MaxStored == 2

\* run.py line 41 with a strict comparison
DeadlinePassedStrict(dl, t) == dl # NoDeadline /\ dl < t
\* check_deadline (run.py lines 39-42): the condition under which it raises
DeadlinePassed(dl, t) == dl # NoDeadline /\ dl <= t

\* timed_command (gitutil.py lines 227-236): the record returned when the
\* output of /usr/bin/time parses or not and the child exits with 0 or not
TimedCommand(parsed, rc0, t) ==
    IF parsed THEN [ts |-> t, failed |-> ~rc0]
    ELSE [ts |-> NoTs, failed |-> TRUE]

HasTimestamps(rs) == \A k \in 1..Len(rs) : rs[k].ts # NoTs

\* _prune_source_data (datacache.py lines 33-44): r.get('timestamp', 0)
PruneSourceData(rs, before) ==
    SelectSeq(rs, LAMBDA r : (IF r.ts = NoTs THEN 0 ELSE r.ts) >= before)

\* list.sort(key=lambda cr: cr['timestamp']) (run.py line 261), stable
RECURSIVE InsertSorted(_, _)
InsertSorted(rs, r) ==
    IF rs = <<>> THEN <<r>>
    ELSE IF rs[Len(rs)].ts <= r.ts THEN Append(rs, r)
    ELSE Append(InsertSorted(SubSeq(rs, 1, Len(rs) - 1), r), rs[Len(rs)])
RECURSIVE SortByTimestamp(_)
SortByTimestamp(rs) ==
    IF rs = <<>> THEN <<>>
    ELSE InsertSorted(SortByTimestamp(SubSeq(rs, 1, Len(rs) - 1)), rs[Len(rs)])

\* run.py lines 256-263 and the DataCache calls they make, applied to the
\* cached list rs and the new record cr: the cached list and the file
\* afterwards, and the exception that left time_compile_one
RecordSample(rs, file, cr, mx, before) ==
    LET pruned == PruneSourceData(rs, before)
        appended == Append(pruned, cr)
        sorted == SortByTimestamp(appended)
        trimmed == IF Len(appended) > mx
                   THEN SubSeq(sorted, Len(sorted) - mx + 1, Len(sorted))
                   ELSE appended
    IN IF ~HasTimestamps(pruned)
       THEN [crs |-> pruned, file |-> file, raised |-> "KeyError"]
       ELSE IF Len(appended) > mx /\ ~HasTimestamps(appended)
       THEN [crs |-> appended, file |-> file, raised |-> "KeyError"]
       ELSE IF ~HasTimestamps(trimmed)
       THEN [crs |-> trimmed, file |-> trimmed, raised |-> "KeyError"]
       ELSE [crs |-> trimmed, file |-> trimmed, raised |-> "none"]

\* lists a source data file can hold when the run starts: records in the
\* order they were taken, the last of them possibly without a timestamp
RECURSIVE Ascending(_)
Ascending(rs) ==
    Len(rs) <= 1 \/ (rs[1].ts <= rs[2].ts /\ Ascending(Tail(rs)))
StoredLists ==
    LET recs == {[ts |-> t, failed |-> FALSE] : t \in 0..1}
        timed == UNION {[1..n -> recs] : n \in 0..MaxStored}
        asc == {rs \in timed : Ascending(rs)}
    IN asc \cup {Append(rs, [ts |-> NoTs, failed |-> TRUE]) :
                   rs \in {q \in asc : Len(q) < MaxStored}}

InitDriverSpec ==
    /\ InitLoop
    /\ InitHasher
    /\ InitPopen(NoArgs, TRUE)
    /\ InitProtocol({})
    /\ \E mx \in 1..MaxSamples, dl \in {NoDeadline} \cup (1..MaxClock),
          un \in 1..MaxUnits, st \in StoredLists : InitDriver(mx, dl, un, st)
    /\ max_concurrent = 1
    /\ inputLen = 0
    /\ failset = {}
    /\ dur = [i \in Ops |-> 0]
    /\ InitCommon

\* process_commit reaches the timing loop (run.py lines 265-267)
EnterLoop ==
    /\ d_pc = "idle"
    /\ d_pc' = "loop"
    /\ UNCHANGED <<bvars, pvars, lvars, hvars, ovars, d_max, d_deadline,
                   d_prune, d_clock, d_units, d_started, d_done, d_crs, d_file>>

\* one pass of the for statement up to the await of line 255: lines
\* 268-270, 253-255
NextUnit ==
    /\ d_pc = "loop"
    /\ d_started < d_units
    /\ IF DeadlinePassed(d_deadline, d_clock)
       THEN d_pc' = "DeadlineReached" /\ d_started' = d_started
       ELSE d_pc' = "unit" /\ d_started' = d_started + 1
    /\ UNCHANGED <<bvars, pvars, lvars, hvars, ovars, d_max, d_deadline,
                   d_prune, d_clock, d_units, d_done, d_crs, d_file>>

\* timed_command returns and time_compile_one runs to its end or to an
\* exception: lines 255-263, then line 271
FinishUnit ==
    \E parsed, rc0 \in BOOLEAN :
        LET res == RecordSample(d_crs, d_file,
                                TimedCommand(parsed, rc0, d_clock),
                                d_max, d_prune)
        IN /\ d_pc = "unit"
           /\ d_crs' = res.crs
           /\ d_file' = res.file
           /\ IF res.raised = "none"
              THEN d_pc' = "loop" /\ d_done' = d_done + 1
              ELSE d_pc' = res.raised /\ d_done' = d_done
           /\ UNCHANGED <<bvars, pvars, lvars, hvars, ovars, d_max,
                          d_deadline, d_prune, d_clock, d_units, d_started>>

\* the tuples are exhausted: the for statement ends (lines 268, 277-279)
LoopEnd ==
    /\ d_pc = "loop"
    /\ d_started = d_units
    /\ d_pc' = "done"
    /\ UNCHANGED <<bvars, pvars, lvars, hvars, ovars, d_max, d_deadline,
                   d_prune, d_clock, d_units, d_started, d_done, d_crs, d_file>>

\* time passes, between units and while a unit is being compiled
Tick ==
    /\ d_pc \in {"idle", "loop", "unit"}
    /\ d_clock < MaxClock
    /\ d_clock' = d_clock + 1
    /\ UNCHANGED <<bvars, pvars, lvars, hvars, ovars, d_max, d_deadline,
                   d_prune, d_units, d_pc, d_started, d_done, d_crs, d_file>>

NextDriver ==
    \/ EnterLoop
    \/ NextUnit
    \/ FinishUnit
    \/ LoopEnd
    \/ Tick

SpecDriver == InitDriverSpec /\ [][NextDriver]_vars

(* ---- properties ---- *)

InFlight == {i \in Ops : task[i] = "running"}

\* C1: with max_concurrent = N >= 1 the number of operations started and
\* not yet completed never exceeds N
C1_BoundedInFlight ==
    max_concurrent >= 1 => Cardinality(InFlight) <= max_concurrent

\* the cap is reached while a further item is being held back
C1_Witness ==
    /\ max_concurrent = 2
    /\ Cardinality(InFlight) = 2
    /\ pc = "await_loop"
    /\ pulled = 3
\* C2: the k-th value yielded is the result of the k-th operation to
\* complete
C2_CompletionOrder ==
    /\ Len(yielded) <= Len(completed)
    /\ \A k \in 1..Len(yielded) : yielded[k] = completed[k]

\* two results delivered against submission order
C2_Witness ==
    /\ Len(yielded) >= 2
    /\ yielded[1] > yielded[2]

\* C3: when an operation of the batch fails, every other operation is
\* still yielded and the operator runs to its end
C3_ErrorIsolation ==
    (max_concurrent >= 1 /\ pc \in {"done", "raised"})
        => \A i \in (1..inputLen) \ failset : i \in Range(yielded)

OutputLost == lostPending \cap {1, 2} = {}
BothHold == ~exitPending /\ OutputLost

\* C4: whatever pipes were opened and in whatever order the exit and
\* closure notifications arrive, the transport is closed exactly once
C4_ClosedExactlyOnce ==
    /\ closes <= 1
    /\ (connected /\ BothHold) => closes = 1

\* both output pipes were open and the transport has been closed
C4_Witness ==
    /\ pipes = {0, 1, 2}
    /\ lostPending = {0}
    /\ closes = 1

\* C5: the transport is not closed before the process has exited and every
\* output pipe has closed, and it is closed by the handler of the event
\* that first makes both true
C5_CloseWhenBothHold ==
    /\ [](closes > 0 => BothHold)
    /\ [][/\ (connected /\ ~BothHold /\ BothHold') => closes' = closes + 1
          /\ closes' # closes => (~BothHold /\ BothHold')]_vars

\* the exit was notified while an output pipe was still open, and the
\* later closure released the transport
C5_Witness ==
    /\ pipes = {1}
    /\ process_exited
    /\ closes = 1
    /\ sink[1].eof

\* C6: fewer operations than the cap, all of which finish: exactly L
\* results are yielded and the generator ends
C6_ShortInputTerminates ==
    (max_concurrent >= 1 /\ inputLen < max_concurrent /\ failset = {})
        => /\ <>(pc = "done" /\ Len(yielded) = inputLen)
           /\ [](Len(yielded) <= inputLen)

C6_Witness ==
    /\ max_concurrent = 3
    /\ inputLen = 2
    /\ pc = "done"
    /\ Len(yielded) = 2

ScenarioDur == [i \in Ops |-> IF i <= Len(Scenario) THEN Scenario[i] ELSE 0]
InScenario == max_concurrent = 3 /\ dur = ScenarioDur
IsPrefix(a, b) == Len(a) <= Len(b) /\ \A k \in 1..Len(a) : a[k] = b[k]

\* C7 as stated: in the scenario op4 is yielded first and op2 second
C7_Op4First ==
    InScenario => /\ Len(yielded) >= 1 => yielded[1] = 4
                  /\ Len(yielded) >= 2 => yielded[2] = 2

\* C7: in the scenario the results are yielded in the order op2, op4,
\* op1, op5, op3
C7_ScenarioOrder ==
    InScenario => /\ IsPrefix(yielded, <<2, 4, 1, 5, 3>>)
                  /\ pc = "done" => Len(yielded) = Len(Scenario)

C7_Witness ==
    /\ InScenario
    /\ pc = "done"
    /\ now = 9

\* C8: with max_concurrent <= 0 the first request fails with ValueError,
\* no item is pulled from the input and no operation is started
C8_InvalidConfig ==
    max_concurrent <= 0 =>
        /\ pulled = 0
        /\ \A i \in Ops : task[i] = "new"
        /\ requests >= 1 => (pc = "raised" /\ error = "ValueError")

C8_Witness ==
    /\ max_concurrent = 0
    /\ inputLen > 0
    /\ pc = "raised"

\* C9: an invalid max_concurrent makes the call itself fail, before any
\* request for a result
C9_RaisedAtCall ==
    max_concurrent <= 0 =>
        /\ pc # "created"
        /\ error = "ValueError" => requests = 0

\* C10: over an empty input nothing is yielded, no slot is created and
\* the generator ends within the first request
C10_EmptyInput ==
    (max_concurrent >= 1 /\ inputLen = 0) =>
        /\ yielded = <<>>
        /\ futures = <<>>
        /\ requests <= 1
        /\ requests = 1 => pc \in {"iter", "done"}
        /\ pc \in {"uncalled", "created", "closed", "iter", "done"}

C10_Witness ==
    /\ max_concurrent >= 1
    /\ inputLen = 0
    /\ requests = 1
    /\ pc = "done"
PendingCallback(i) == \E k \in 1..Len(ready) : ready[k] = [kind |-> "cb", task |-> i]
InSlot(i) == \E k \in 1..Len(futures) : futures[k].done /\ futures[k].task = i
RaisedAt(i) ==
    /\ pc = "raised"
    /\ error = "OpError"
    /\ Len(completed) > Len(yielded)
    /\ completed[Len(yielded) + 1] = i

\* C11: a failed operation is on the rendezvous path (its callback is about
\* to run on a running loop, or a slot of the queue holds it) until it is
\* raised to the consumer at its position in completion order, and a unit
\* whose child exits non-zero is such a failure and gives no digest
C11_FailureDelivered ==
    \A i \in Ops :
        /\ task[i] = "failed" =>
              \/ loop_exc = "none" /\ PendingCallback(i)
              \/ InSlot(i)
              \/ RaisedAt(i)
        /\ i \in failset => (task[i] # "ok" /\ i \notin Range(yielded))
\* the waiter of a hasher fed the given bytes in one feed_data call and
\* then feed_eof
SingleCallWaiter(bytes) == HFeedEof(HFeedData(NewHasher, bytes).h).h.waiter

\* C12: a hasher fed its bytes in any chunking, empty chunks included, and
\* then feed_eof resolves to the digest of a hasher fed the concatenation
\* in a single call
C12_ChunkInvariance ==
    h_first = "eof" => hasher.waiter = SingleCallWaiter(h_fed)

\* three feed_data calls carrying three bytes in all, then feed_eof
C12_Witness ==
    /\ h_first = "eof"
    /\ h_ncalls = 4
    /\ h_call = [op |-> "feed_eof", raised |-> "none"]
    /\ Len(h_fed) = 3

\* C13: feed_data after feed_eof or after set_exception is rejected and
\* leaves the running digest as it was
C13_FeedAfterEndRejected ==
    (h_call.op = "feed_data" /\ (h_prev.eof \/ h_prev.exception # "none"))
        => (h_call.raised # "none" /\ hasher.hash = h_prev.hash)

\* C14: once the waiter has an outcome no call changes it, and every read
\* of hexdigest returns that outcome
C14_ResolvedImmutable ==
    /\ [][hasher.waiter.state # "pending" => hasher'.waiter = hasher.waiter]_vars
    /\ [](\A k \in 1..Len(reads) : reads[k] = hasher.waiter)

\* two reads were made and a call after the resolution was refused
C14_Witness ==
    /\ Len(reads) = 2
    /\ h_call.raised = "InvalidStateError"
    /\ hasher.waiter.state = "result"

\* C15: when set_exception(exc) comes before any feed_eof, hexdigest fails
\* with exc and no read ever obtains a digest
C15_ExceptionWins ==
    h_first \in Excs =>
        /\ hasher.waiter = [state |-> "exception", value |-> h_first]
        /\ \A k \in 1..Len(reads) : reads[k] = hasher.waiter

\* the reader was already suspended in hexdigest when the error arrived
C15_Witness ==
    /\ h_first \in Excs
    /\ reader = "waiting"
    /\ hasher.eof
\* C16: async_popen given both a stdout disposition and a stdout_filter
\* fails with ValueError and spawns no child
C16_ConflictRejected ==
    (po_args.stdout # "None" /\ po_args.stdout_filter # "None")
        => /\ po_spawns = 0
           /\ po_pc # "spawned"
           /\ po_pc = "raised" => po_error = "ValueError"

C16_Witness ==
    /\ po_args.stdout = "DEVNULL"
    /\ po_args.stdout_filter = "sink"
    /\ po_pc = "raised"
\* C17: when the consumer stops early no started operation is cancelled:
\* the stop leaves every task, the ready queue and the slot queue as they
\* were
C17_StopLeavesTasks ==
    [][(pc # "closed" /\ pc' = "closed")
          => (task' = task /\ ready' = ready /\ futures' = futures)]_vars

\* the consumer has stopped after a first result while operations run
C17_Witness ==
    /\ pc = "closed"
    /\ Len(yielded) >= 1
    /\ Cardinality(InFlight) = 2

\* C18: 0 <= num_pending <= max_concurrent; it grows by one only on an
\* admission below the cap, is unchanged by an admission at the cap and by
\* the start that follows the paired consumption, and shrinks by one only
\* in the final drain
C18_NumPending ==
    /\ [](max_concurrent >= 1 =>
             (0 <= num_pending /\ num_pending <= max_concurrent))
    /\ [][/\ num_pending' \in {num_pending - 1, num_pending, num_pending + 1}
          /\ num_pending' = num_pending + 1 =>
                (pc = "iter" /\ pulled' = pulled + 1
                             /\ num_pending < max_concurrent)
          /\ (pulled' = pulled + 1 /\ num_pending = max_concurrent) =>
                num_pending' = num_pending
          /\ (pc = "yield_loop" /\ pc' = "iter") => num_pending' = num_pending
          /\ num_pending' = num_pending - 1 => pc = "yield_drain"]_vars

\* three operations under a cap of two: the third was admitted at the cap
\* and the drain has decremented once
C18_Witness ==
    /\ max_concurrent = 2
    /\ num_pending = 1
    /\ pc = "yield_drain"
    /\ Len(yielded) = 3

\* C19: no unresolved slot precedes a resolved one, and a slot leaves the
\* queue only from the front, resolved, as its value goes to the consumer
C19_SlotQueue ==
    /\ [](\A j, k \in 1..Len(futures) :
             (j < k /\ futures[k].done) => futures[j].done)
    /\ [][Len(futures') < Len(futures) =>
             /\ futures' = Tail(futures)
             /\ futures[1].done
             /\ \/ yielded' = Append(yielded, futures[1].task)
                \/ pc' = "raised" /\ task[futures[1].task] = "failed"]_vars

\* results are queued behind one another after a first one was taken
C19_Witness ==
    /\ Len(futures) >= 2
    /\ Len(yielded) >= 1

\* C20: an item produced at the cap is not started by that step; it is
\* started by the consumer's next request, after a result was yielded, and
\* num_pending keeps its value throughout
C20_StartAfterYield ==
    /\ [](\A i \in Ops : (max_concurrent >= 1 /\ task[i] # "new")
                             => Len(yielded) >= i - max_concurrent)
    /\ [][/\ (pc = "iter" /\ pulled' = pulled + 1
                          /\ num_pending = max_concurrent)
             => (task' = task /\ num_pending' = num_pending)
          /\ \A i \in Ops :
                (i > max_concurrent /\ task[i] = "new" /\ task'[i] # "new")
                   => /\ pc = "yield_loop"
                      /\ pulled = i
                      /\ requests' = requests + 1
                      /\ Len(yielded) >= 1
                      /\ num_pending = max_concurrent
                      /\ num_pending' = num_pending]_vars

\* the third operation runs under a cap of two after one result was yielded
C20_Witness ==
    /\ max_concurrent = 2
    /\ task[3] = "running"
    /\ Len(yielded) = 1
    /\ num_pending = 2

\* C21: once the input is exhausted the results still owed are exactly
\* num_pending; the drain yields one per request and decrements after
\* each, and when every operation finishes and the consumer keeps asking
\* the generator ends with num_pending = 0 and L results for L operations
C21_DrainTerminates ==
    /\ [](/\ (pc = "iter" /\ pulled = inputLen) =>
                Len(yielded) + num_pending = inputLen
          /\ pc = "await_drain" => Len(yielded) + num_pending = inputLen
          /\ pc = "yield_drain" => Len(yielded) + num_pending - 1 = inputLen
          /\ pc = "done" => (num_pending = 0 /\ Len(yielded) = inputLen))
    /\ [][(pc = "yield_drain" /\ pc' # pc) =>
             (num_pending' = num_pending - 1 /\ yielded' = yielded)]_vars
    /\ (max_concurrent >= 1 /\ failset = {}) =>
          <>(pc = "done" /\ num_pending = 0 /\ Len(yielded) = inputLen)

\* four operations under a cap of two: two results came from the loop and
\* two from the drain
C21_Witness ==
    /\ max_concurrent = 2
    /\ inputLen = 4
    /\ pc = "done"
    /\ num_pending = 0
    /\ Len(yielded) = 4

\* C22: operations are started in input order: the started operations are
\* always the first ones of the input, and a step starts at most the next
C22_StartOrder ==
    /\ [](\A i, j \in Ops :
             (i < j /\ task[j] # "new") => task[i] # "new")
    /\ [][\A i \in Ops :
             (task[i] = "new" /\ task'[i] # "new")
                => /\ \A j \in Ops : j < i => task[j] # "new"
                   /\ \A j \in Ops : j > i => task'[j] = "new"]_vars

\* the third item is held back at the cap after the first two were started
C22_Witness ==
    /\ max_concurrent = 2
    /\ pulled = 3
    /\ task[1] # "new"
    /\ task[2] # "new"
    /\ task[3] = "new"
    /\ pc = "await_loop"

CallbackStep ==
    /\ ready # <<>>
    /\ Head(ready).kind = "cb"
    /\ ready' # ready
    /\ completed' = completed
Occurrences(i) ==
    Cardinality({k \in 1..Len(ready) : ready[k] = [kind |-> "cb", task |-> i]})
    + Cardinality({k \in 1..Len(futures) : futures[k].done /\ futures[k].task = i})
    + Cardinality({k \in 1..Len(yielded) : yielded[k] = i})

\* C23: a done callback resolves the front slot when there is one and it
\* is unresolved; otherwise it appends a resolved slot at the back and
\* leaves the slots already queued as they are; so the result of every
\* operation that finished without raising is in exactly one place, and
\* when none fails each operation is yielded exactly once
C23_CompletionHandoff ==
    /\ [][CallbackStep =>
             IF futures # <<>> /\ ~futures[1].done
             THEN /\ Len(futures') = Len(futures)
                  /\ futures'[1].done
                  /\ futures'[1].task = Head(ready).task
                  /\ \A k \in 2..Len(futures) : futures'[k] = futures[k]
             ELSE /\ Len(futures') = Len(futures) + 1
                  /\ futures'[Len(futures')].done
                  /\ futures'[Len(futures')].task = Head(ready).task
                  /\ \A k \in 1..Len(futures) : futures'[k] = futures[k]]_vars
    /\ [](\A i \in Ops : task[i] = "ok" => Occurrences(i) = 1)
    /\ []((pc = "done" /\ failset = {}) =>
             \A i \in 1..inputLen :
                Cardinality({k \in 1..Len(yielded) : yielded[k] = i}) = 1)

\* a completion found the front slot already resolved and not yet taken,
\* and queued its result behind it
C23_Witness ==
    /\ Len(futures) = 2
    /\ futures[1].done
    /\ futures[1].waited
    /\ futures[2].done
    /\ pc \in {"await_loop", "await_drain"}

\* C29: the slot queue never holds more than max_concurrent entries, at
\* most one of them is unresolved, and an unresolved slot is the only
\* entry and is the one the consumer is suspended on
C29_SlotQueueBound ==
    max_concurrent >= 1 =>
       /\ Len(futures) <= max_concurrent
       /\ Cardinality({k \in 1..Len(futures) : ~futures[k].done}) <= 1
       /\ \A k \in 1..Len(futures) :
             ~futures[k].done => /\ Len(futures) = 1
                                 /\ futures[k].waited
                                 /\ pc \in {"await_loop", "await_drain"}

\* the consumer has stopped after one result and the two operations still
\* running have queued their results since
C29_Witness ==
    /\ pc = "closed"
    /\ max_concurrent = 3
    /\ Len(futures) = 2
    /\ \A k \in 1..Len(futures) : futures[k].done

LostStep(fd) == fd \in lostPending /\ fd \notin lostPending'
DataStep(fd) == data_seen'[fd] = data_seen[fd] + 1

\* C24: the closure of output stream fd gives that stream's sink its end
\* signal, feed_eof for a clean closure and set_exception for an error,
\* clears that stream's bit only and leaves the other stream's sink and
\* bit alone; so a sink has had one end signal exactly when its pipe has
\* closed, never both kinds, and takes no data afterwards
C24_OutputClosure ==
    /\ [][\A fd \in {1, 2} :
             LostStep(fd) =>
                LET o == 3 - fd
                    exc == last_call'.exc
                IN /\ last_call'.ev = "lost" /\ last_call'.fd = fd
                   /\ sink[fd].present =>
                         /\ sink'[fd].eof = (sink[fd].eof \/ ~exc)
                         /\ sink'[fd].exception = (sink[fd].exception \/ exc)
                         /\ sink'[fd].fed = sink[fd].fed
                   /\ sink'[o] = sink[o]
                   /\ ~HasBit(pipe_fds', fd)
                   /\ HasBit(pipe_fds', o) = HasBit(pipe_fds, o)]_vars
    /\ [](\A fd \in {1, 2} :
             (connected /\ sink[fd].present) =>
                IF fd \in lostPending
                THEN ~sink[fd].eof /\ ~sink[fd].exception
                ELSE sink[fd].eof # sink[fd].exception)
    /\ [][\A fd \in {1, 2} :
             sink'[fd].fed # sink[fd].fed =>
                (~sink[fd].eof /\ ~sink[fd].exception)]_vars

\* stdout was closed by an error after a chunk while stderr is still open
\* and its sink untouched
C24_Witness ==
    /\ pipes = {1, 2}
    /\ lostPending = {2}
    /\ sink[1].exception /\ ~sink[1].eof
    /\ sink[1].fed = 1
    /\ ~sink[2].eof /\ ~sink[2].exception
    /\ pipe_fds = 2

\* C25: a chunk on stream 1 goes to the stdout sink only and a chunk on
\* stream 2 to the stderr sink only; a chunk for a stream without a sink
\* or for another descriptor changes neither sink; no chunk changes the
\* mask, the exit flag or the transport
C25_DataRouting ==
    [][\A fd \in DataFds :
          DataStep(fd) =>
             /\ IF fd \in {1, 2} /\ sink[fd].present
                THEN /\ sink'[fd] = [sink[fd] EXCEPT !.fed = sink[fd].fed + 1]
                     /\ sink'[3 - fd] = sink[3 - fd]
                ELSE sink' = sink
             /\ pipe_fds' = pipe_fds
             /\ process_exited' = process_exited
             /\ transport' = transport
             /\ closes' = closes]_vars

\* a chunk on stderr reached the stderr sink alone and a chunk for a
\* descriptor without a sink reached none
C25_Witness ==
    /\ pipes = {1, 2}
    /\ data_seen[2] = 1
    /\ data_seen[3] = 1
    /\ data_seen[1] = 0
    /\ sink[2].fed = 1
    /\ sink[1].fed = 0

\* C26: the closure of the input pipe closes the writer when there is one
\* and marks the connection lost; the mask, the exit flag, both sinks and
\* the transport stay as they are
C26_InputClosure ==
    [][LostStep(0) =>
          /\ conn_lost'
          /\ stdin' = (IF stdin = "none" THEN "none" ELSE "closed")
          /\ pipe_fds' = pipe_fds
          /\ process_exited' = process_exited
          /\ sink' = sink
          /\ transport' = transport
          /\ closes' = closes
          /\ perror' = perror]_vars

\* the input pipe closed after the child exited while stdout is open: the
\* transport is still held
C26_Witness ==
    /\ pipes = {0, 1}
    /\ conn_lost
    /\ lostPending = {1}
    /\ process_exited
    /\ pipe_fds = 1
    /\ transport = "set"
    /\ last_call.ev = "lost" /\ last_call.fd = 0

AbsStateOf(pf, ex) ==
    IF ex THEN (IF pf = 0 THEN "closed" ELSE "exited_pipes_open")
    ELSE (IF pf = 0 THEN "pipes_closed_running" ELSE "running")
AbsState == AbsStateOf(pipe_fds, process_exited)
AbsTransitions ==
    {<<"running", "exited_pipes_open">>, <<"running", "pipes_closed_running">>,
     <<"exited_pipes_open", "closed">>, <<"pipes_closed_running", "closed">>}

\* C27: once connected, (mask, exit flag) read as running,
\* exited_pipes_open, pipes_closed_running or closed moves only along the
\* four-state machine or stays; the exit moves running to
\* exited_pipes_open and pipes_closed_running to closed; the transport is
\* released on the step that enters closed and on no other, and is held
\* exactly outside closed
C27_RefinesFourStates ==
    /\ [][(connected /\ connected') =>
             LET a == AbsState
                 b == AbsStateOf(pipe_fds', process_exited')
             IN /\ a = b \/ <<a, b>> \in AbsTransitions
                /\ (exitPending /\ ~exitPending') =>
                      <<a, b>> \in {<<"running", "exited_pipes_open">>,
                                    <<"pipes_closed_running", "closed">>}
                /\ (a # "closed" /\ b = "closed")
                      <=> (transport = "set" /\ transport' = "none")
                /\ closes' # closes <=> transport' # transport]_vars
    /\ [](connected => ((transport = "none") <=> (AbsState = "closed")))

\* closed entered from exited_pipes_open: the child exited while both
\* output pipes were open and the last of them has just closed
C27_Witness ==
    /\ pipes = {1, 2}
    /\ AbsState = "closed"
    /\ last_call.ev = "lost"
    /\ closes = 1
    /\ transport = "none"

\* closed entered from pipes_closed_running: the exit came last
ClosedByExit ==
    /\ pipes = {1, 2}
    /\ AbsState = "closed"
    /\ last_call.ev = "exit"
    /\ closes = 1

\* C28: DeadlineReached is raised only between units, when every unit
\* that was started has run to its end; a unit that is running ends in
\* its saved sample or in an exception of its own, never in
\* DeadlineReached, however late it is; and no unit is started at or
\* after the deadline
C28_DeadlineBetweenUnits ==
    /\ [](d_pc = "DeadlineReached" =>
             /\ d_started = d_done
             /\ d_file = d_crs
             /\ d_deadline # NoDeadline /\ d_deadline <= d_clock)
    /\ [][d_pc = "unit" =>
             /\ d_pc' \in {"unit", "loop", "KeyError"}
             /\ d_pc' = "loop" =>
                   /\ d_done' = d_done + 1
                   /\ d_file' = d_crs'
                   /\ d_crs'[Len(d_crs')].ts = d_clock]_vars
    /\ [][d_started' # d_started =>
             /\ d_started' = d_started + 1
             /\ d_deadline = NoDeadline \/ d_clock < d_deadline]_vars

\* the deadline passed while the second unit was running: its sample was
\* saved with a timestamp after the deadline, then the loop was left
C28_Witness ==
    /\ d_pc = "DeadlineReached"
    /\ d_units = 3
    /\ d_done = 2
    /\ d_crs # <<>>
    /\ d_crs[Len(d_crs)].ts > d_deadline
    /\ d_file = d_crs

\* C30: once a sample has been recorded and no unit is running, the list
\* of samples holds at most max_samples records
C30_SampleBound ==
    (d_started > 0 /\ d_pc # "unit") => Len(d_crs) <= d_max
====
